---- MODULE Spec2Model ----
(***************************************************************************)
(* A model of the arxiv-tools paper pipeline:                              *)
(*   daily_paper_collector.py  collection and merge into per-date files,   *)
(*                             index (ledger) maintenance                  *)
(*   llm_process.py            the enrichment driver and its LLM adapter   *)
(*   cleanup_empty_papers.py   removal of empty per-date files             *)
(*   translate_batch.py        the batch translator                        *)
(*   scheduler.py              the daily task that runs the scripts        *)
(* Python lists are sequences, dicts that keep insertion order are         *)
(* sequences of records, a missing file is a record with exists = FALSE.   *)
(***************************************************************************)
EXTENDS Integers, Sequences, FiniteSets, TLC

(***************************************************************************)
(* Bounds of the model.                                                    *)
(***************************************************************************)
NumDates == 2        \* calendar dates 1..NumDates (ordered like YYYY-MM-DD strings)
NumIds == 2          \* paper identifiers 1..NumIds
MaxCollect == 2      \* runs of daily_paper_collector.py
MaxListing == 1      \* runs of the listing (subjects) source
MaxRuns == 2         \* runs of llm_process.py
MaxCalls == 2        \* adapter calls where every answer of the LLM is explored
MaxCleanup == 1      \* runs of cleanup_empty_papers.py
MaxTranslate == 1    \* runs of translate_batch.py
MaxTasks == 2        \* runs of daily_task of the scheduler

Dates == 1..NumDates
Ids == 1..NumIds

(***************************************************************************)
(* Configuration (config.yaml): the keyword topics with their categories,  *)
(* the closed vocabularies and the whitelist.                              *)
(***************************************************************************)
processed_keywords == <<"TTS", "MIR">>
topic_categories == [t \in {"TTS", "MIR"} |-> IF t = "TTS" THEN "Speech" ELSE "Music"]
all_topic == {"TTS", "MIR", "Other"}
all_category == {"Speech", "Music", "Other"}
\* strings that take part in a substring test are sequences of characters
whitelist_subjects == << <<"S", "D">> >>

\* upstream versions of a paper's title/abstract/authors/update time
Versions == {"v1", "v2"}
\* what a listing source can report as the subjects of a paper
SubjectLists == { << <<"c", "s", "S", "D">> >>, << <<"C", "V">> >> }

(***************************************************************************)
(* Sequence helpers.                                                       *)
(***************************************************************************)
Range(s) == {s[i] : i \in 1..Len(s)}

In(x, s) == \E i \in 1..Len(s) : s[i] = x

\* list.append(x) guarded by "if x not in list"
AppendIfMissing(s, x) == IF In(x, s) THEN s ELSE Append(s, x)

RECURSIVE ExtendMissing(_, _)
\* for x in xs: if x not in s: s.append(x)
ExtendMissing(s, xs) ==
    IF xs = <<>> THEN s
    ELSE ExtendMissing(AppendIfMissing(s, Head(xs)), Tail(xs))

\* a variant that also removes whatever follows position i
Pop_Truncating(s, i) == SubSeq(s, 1, i - 1)

\* list.pop(i)
Pop(s, i) == SubSeq(s, 1, i - 1) \o SubSeq(s, i + 1, Len(s))

RECURSIVE SumSeq(_)
SumSeq(s) == IF s = <<>> THEN 0 ELSE Head(s) + SumSeq(Tail(s))

RECURSIVE SortedSeqOf(_)
\* sorted(list(a_set))
SortedSeqOf(S) ==
    IF S = {} THEN <<>>
    ELSE LET m == CHOOSE x \in S : \A y \in S : x <= y
         IN  <<m>> \o SortedSeqOf(S \ {m})

\* the ascending sequences of identifiers a query can return
RECURSIVE AscSeqs(_)
AscSeqs(n) ==
    IF n = 0 THEN {<<>>}
    ELSE AscSeqs(n - 1) \cup {Append(s, n) : s \in AscSeqs(n - 1)}

\* index of the first record with this id in a list of records, 0 if none
FirstIndexOf(list, id) ==
    IF \E i \in 1..Len(list) : list[i].paper_id = id
    THEN CHOOSE i \in 1..Len(list) :
            /\ list[i].paper_id = id
            /\ \A j \in 1..(i - 1) : list[j].paper_id # id
    ELSE 0

IdsOf(list) == {list[i].paper_id : i \in 1..Len(list)}

(***************************************************************************)
(* daily_paper_collector.py: records, search, merge.                       *)
(***************************************************************************)
\* the paper_info dict built from one search result; the collector writes no
\* subjects key, which readers take as the empty list
paper_info(id, v, topic, category) ==
    [paper_id |-> id,
     paper_title |-> v,
     paper_title_zh |-> "",
     paper_abstract |-> v,
     paper_abstract_zh |-> "",
     update_time |-> v,
     paper_authors |-> v,
     topic |-> topic,
     category |-> category,
     subjects |-> <<>>]

\* found[t] is the list of identifiers the query of topic t returned for the
\* target date (the empty list also stands for a query that raised)
search_papers_by_keywords(found, v) ==
    [t \in DOMAIN found |->
        [i \in 1..Len(found[t]) |->
            paper_info(found[t][i], v, <<t>>, <<topic_categories[t]>>)]]

\* ids is the concatenation of what the two category queries returned
search_papers_by_categories(ids, v) ==
    [i \in 1..Len(ids) |-> paper_info(ids[i], v, <<>>, <<"Other">>)]

\* a variant that merges the topic of a paper found again, not its category
MergePaperOfTopic_TopicOnly(merged_papers, topic, paper) ==
    LET i == FirstIndexOf(merged_papers, paper.paper_id)
    IN  IF i # 0
        THEN [merged_papers EXCEPT ![i].topic = AppendIfMissing(@, topic)]
        ELSE Append(merged_papers, paper)

\* one iteration of the inner loop of merge_papers_by_topic
MergePaperOfTopic(merged_papers, topic, paper) ==
    LET i == FirstIndexOf(merged_papers, paper.paper_id)
    IN  IF i # 0
        THEN [merged_papers EXCEPT
                ![i].topic = AppendIfMissing(@, topic),
                ![i].category = AppendIfMissing(@, topic_categories[topic])]
        ELSE Append(merged_papers, paper)

RECURSIVE MergePapersOfTopic(_, _, _)
MergePapersOfTopic(merged_papers, topic, papers) ==
    IF papers = <<>> THEN merged_papers
    ELSE MergePapersOfTopic(MergePaperOfTopic(merged_papers, topic, Head(papers)),
                            topic, Tail(papers))

RECURSIVE MergeTopics(_, _, _)
MergeTopics(merged_papers, topics, results_by_topic) ==
    IF topics = <<>> THEN merged_papers
    ELSE MergeTopics(
            MergePapersOfTopic(merged_papers, Head(topics), results_by_topic[Head(topics)]),
            Tail(topics), results_by_topic)

\* the dict id -> record, as the list of its values in insertion order
merge_papers_by_topic(results_by_topic) ==
    MergeTopics(<<>>, processed_keywords, results_by_topic)

RECURSIVE add_incremental_papers_Union(_, _)
\* a variant in which a category-query record of an id already found adds its
\* category to the record of that id
add_incremental_papers_Union(existing_papers, category_papers) ==
    IF category_papers = <<>> THEN existing_papers
    ELSE LET i == FirstIndexOf(existing_papers, Head(category_papers).paper_id)
         IN  add_incremental_papers_Union(
                IF i = 0
                THEN Append(existing_papers, Head(category_papers))
                ELSE [existing_papers EXCEPT
                        ![i].category = ExtendMissing(@, Head(category_papers).category)],
                Tail(category_papers))

RECURSIVE add_incremental_papers(_, _)
add_incremental_papers(existing_papers, category_papers) ==
    IF category_papers = <<>> THEN existing_papers
    ELSE add_incremental_papers(
            IF FirstIndexOf(existing_papers, Head(category_papers).paper_id) = 0
            THEN Append(existing_papers, Head(category_papers))
            ELSE existing_papers,
            Tail(category_papers))

RECURSIVE DictOfPapers(_, _)
\* {paper['paper_id']: paper for paper in list}: a later record of the same
\* id replaces the value and keeps the key's position
DictOfPapers(dict, list) ==
    IF list = <<>> THEN dict
    ELSE LET i == FirstIndexOf(dict, Head(list).paper_id)
         IN  DictOfPapers(IF i = 0 THEN Append(dict, Head(list))
                          ELSE [dict EXCEPT ![i] = Head(list)],
                          Tail(list))

\* a variant in which the record of the batch replaces the persisted one
MergeIntoExisting_Replacing(existing_papers_dict, paper) ==
    LET i == FirstIndexOf(existing_papers_dict, paper.paper_id)
    IN  IF i = 0
        THEN Append(existing_papers_dict, paper)
        ELSE [existing_papers_dict EXCEPT ![i] = paper]

\* a variant that adds the record of the batch without looking for its id
MergeIntoExisting_Appending(existing_papers_dict, paper) ==
    Append(existing_papers_dict, paper)

\* one iteration of the incremental merge loop of collect_daily_papers
MergeIntoExisting(existing_papers_dict, paper) ==
    LET i == FirstIndexOf(existing_papers_dict, paper.paper_id)
    IN  IF i = 0
        THEN Append(existing_papers_dict, paper)
        ELSE [existing_papers_dict EXCEPT
                ![i].topic = ExtendMissing(@, paper.topic),
                ![i].category = ExtendMissing(@, paper.category)]

\* a variant that puts the batch behind the persisted records
IncrementalMerge_Concat(existing_papers_dict, final_papers) ==
    existing_papers_dict \o final_papers

RECURSIVE IncrementalMerge(_, _)
IncrementalMerge(existing_papers_dict, final_papers) ==
    IF final_papers = <<>> THEN existing_papers_dict
    ELSE IncrementalMerge(MergeIntoExisting(existing_papers_dict, Head(final_papers)),
                          Tail(final_papers))

\* new_papers_count of collect_daily_papers
NewPapersCount(existing_papers_dict, final_papers) ==
    Cardinality({i \in 1..Len(final_papers) :
                    FirstIndexOf(existing_papers_dict, final_papers[i].paper_id) = 0})

(***************************************************************************)
(* llm_process.py: the whitelist test and the LLM adapter.                 *)
(***************************************************************************)
\* Python's "needle in haystack" on strings
IsSubstring(needle, haystack) ==
    \E i \in 1..(Len(haystack) - Len(needle) + 1) :
        SubSeq(haystack, i, i + Len(needle) - 1) = needle

\* a variant that asks for a subject equal to a whitelist string
is_paper_in_whitelist_Exact(paper, whitelist) ==
    \E i \in 1..Len(paper.subjects) : \E j \in 1..Len(whitelist) :
        whitelist[j] = paper.subjects[i]

is_paper_in_whitelist(paper, whitelist) ==
    \E i \in 1..Len(paper.subjects) : \E j \in 1..Len(whitelist) :
        IsSubstring(whitelist[j], paper.subjects[i])

\* a variant that keeps every returned value
ValidValues_All(values, vocabulary) == values

\* keep the values of a returned list that are in the candidate vocabulary
RECURSIVE ValidValues(_, _)
ValidValues(values, vocabulary) ==
    IF values = <<>> THEN <<>>
    ELSE (IF Head(values) \in vocabulary THEN <<Head(values)>> ELSE <<>>)
            \o ValidValues(Tail(values), vocabulary)

EmptyResult ==
    [paper_title_zh |-> "", paper_abstract_zh |-> "", topic |-> <<>>, category |-> <<>>]

\* the JSON value of "topic"/"category" in a response: a list, or a bare
\* string that the adapter wraps into a list unless it is empty
AsList(value) ==
    IF value.is_list THEN value.items
    ELSE IF value.items # <<"">> THEN value.items ELSE <<>>

\* the result built from a response whose content parsed as JSON
ValidatedResult(response) ==
    [paper_title_zh |-> response.paper_title_zh,
     paper_abstract_zh |-> response.paper_abstract_zh,
     topic |-> ValidValues(AsList(response.topic), all_topic),
     category |-> ValidValues(AsList(response.category), all_category)]

max_retries == 3

RECURSIVE Attempt(_, _)
\* the retry loop: responses[attempt] is what request number attempt got;
\* kind "json" parses, "unparseable" raises JSONDecodeError, "error" raises
\* in the request itself
Attempt(attempt, responses) ==
    IF attempt > max_retries \/ attempt > Len(responses) THEN EmptyResult
    ELSE IF responses[attempt].kind = "json" THEN ValidatedResult(responses[attempt])
    ELSE Attempt(attempt + 1, responses)

process_paper_complete(responses) == Attempt(1, responses)

needs_translation(paper) ==
    paper.paper_title_zh = "" \/ paper.paper_abstract_zh = ""

needs_classification(paper) ==
    paper.topic = <<>> \/ paper.category = <<>>

RECURSIVE CandidatesFrom_First(_, _)
\* a variant that stops at the first record that needs processing
CandidatesFrom_First(i, papers) ==
    IF i > Len(papers) THEN <<>>
    ELSE IF needs_translation(papers[i]) \/ needs_classification(papers[i])
         THEN <<i>>
         ELSE CandidatesFrom_First(i + 1, papers)

RECURSIVE CandidatesFrom(_, _)
\* papers_to_process: the indices of the records that need processing
CandidatesFrom(i, papers) ==
    IF i > Len(papers) THEN <<>>
    ELSE (IF needs_translation(papers[i]) \/ needs_classification(papers[i])
          THEN <<i>> ELSE <<>>) \o CandidatesFrom(i + 1, papers)

\* a variant that assigns the four fields of a result without the guards
ApplyResult_Unguarded(paper, result) ==
    [paper EXCEPT
        !.paper_title_zh = result.paper_title_zh,
        !.paper_abstract_zh = result.paper_abstract_zh,
        !.topic = result.topic,
        !.category = result.category]

\* a variant that never assigns the translated abstract
ApplyResult_WithoutAbstract(paper, result) ==
    [paper EXCEPT
        !.paper_title_zh = IF result.paper_title_zh # "" THEN result.paper_title_zh ELSE @,
        !.topic = IF result.topic # <<>> THEN result.topic ELSE @,
        !.category = IF result.category # <<>> THEN result.category ELSE @]

\* the four guarded assignments that apply a result to a record
ApplyResult(paper, result) ==
    [paper EXCEPT
        !.paper_title_zh = IF result.paper_title_zh # "" THEN result.paper_title_zh ELSE @,
        !.paper_abstract_zh = IF result.paper_abstract_zh # "" THEN result.paper_abstract_zh ELSE @,
        !.topic = IF result.topic # <<>> THEN result.topic ELSE @,
        !.category = IF result.category # <<>> THEN result.category ELSE @]

\* a variant that also filters a record without topics or without categories
should_filter_OrEmpty(paper) ==
    /\ ~is_paper_in_whitelist(paper, whitelist_subjects)
    /\ \/ paper.category = <<"Other">> \/ paper.topic = <<"Other">>
       \/ paper.category = <<>> \/ paper.topic = <<>>

should_filter(paper) ==
    /\ ~is_paper_in_whitelist(paper, whitelist_subjects)
    /\ (paper.category = <<"Other">> \/ paper.topic = <<"Other">>)

(***************************************************************************)
(* State.                                                                  *)
(*   files[d]   data/papers/<d>.json                                       *)
(*   index      data/index.json                                            *)
(*   pc         which script is running, and where it stands               *)
(*   col        locals of collect_daily_papers after it has saved          *)
(*   drv        locals of process_papers_classification                    *)
(*   cln        locals of cleanup main                                     *)
(*   trn        locals of translate_empty_papers_new_format                *)
(*   used       how many runs and adapter calls have been started          *)
(*   call       locals of one call of an adapter (its retry loop)          *)
(*   task       locals of daily_task of the scheduler                      *)
(***************************************************************************)
VARIABLES files, index, pc, col, drv, cln, trn, used, call, task

vars == <<files, index, pc, col, drv, cln, trn, used, call, task>>

NoFile == [exists |-> FALSE, papers |-> <<>>]
NoIndex == [exists |-> FALSE, dates |-> <<>>, total_papers |-> 0]

NoCol == [date_str |-> 0, found |-> <<>>, category_ids |-> <<>>, final_papers |-> <<>>,
          existing_count |-> 0, new_papers_count |-> 0]
NoDrv == [dates |-> <<>>, date_str |-> 0, papers |-> <<>>, papers_copy |-> <<>>,
          papers_to_process |-> <<>>, done |-> 0, result |-> EmptyResult]
NoCln == [index_obj |-> NoIndex, dates |-> {}, todo |-> {}, removed_files |-> {}]
NoTrn == [paper_locations |-> <<>>, batch_start |-> 0]
NoCall == [fn |-> "none", n |-> 0, responses |-> <<>>, attempt |-> 0, state |-> "returned",
           result |-> <<>>]
NoTask == [state |-> "idle", runs |-> 0, next |-> 0, success_count |-> 0, log |-> <<>>]

Init ==
    /\ files = [d \in Dates |-> NoFile]
    /\ index = NoIndex
    /\ pc = "idle"
    /\ col = NoCol
    /\ drv = NoDrv
    /\ cln = NoCln
    /\ trn = NoTrn
    /\ used = [collect |-> 0, listing |-> 0, runs |-> 0, calls |-> 0, cleanup |-> 0,
               translate |-> 0]
    /\ call = NoCall
    /\ task = NoTask

(***************************************************************************)
(* Storage.                                                                *)
(***************************************************************************)
\* load_papers_for_date: a missing file reads as the empty list
load_papers_for_date(fs, d) == IF fs[d].exists THEN fs[d].papers ELSE <<>>

\* load_index of the collector and of the driver: a missing index reads as fresh
load_index(ix) ==
    IF ix.exists THEN ix ELSE [exists |-> TRUE, dates |-> <<>>, total_papers |-> 0]

\* a variant of the index update that does not insert the date
UpdatedIndex_KeepDates(fs, ix, d) ==
    LET old == load_index(ix)
    IN  [exists |-> TRUE,
         dates |-> old.dates,
         total_papers |->
            SumSeq([i \in 1..Len(old.dates) |->
                        Len(load_papers_for_date(fs, old.dates[i]))])]

\* a variant of the index update that appends the date and does not sort
UpdatedIndex_Unsorted(fs, ix, d) ==
    LET old == load_index(ix)
        dates == IF In(d, old.dates) THEN old.dates ELSE Append(old.dates, d)
    IN  [exists |-> TRUE,
         dates |-> dates,
         total_papers |->
            SumSeq([i \in 1..Len(dates) |-> Len(load_papers_for_date(fs, dates[i]))])]

\* the index that DailyPaperCollector.save_papers_for_date writes after it
\* has written the date's file (fs is the store with that file written)
UpdatedIndex(fs, ix, d) ==
    LET old == load_index(ix)
        dates == IF In(d, old.dates) THEN old.dates
                 ELSE SortSeq(Append(old.dates, d), LAMBDA a, b : a < b)
    IN  [exists |-> TRUE,
         dates |-> dates,
         total_papers |->
            SumSeq([i \in 1..Len(dates) |-> Len(load_papers_for_date(fs, dates[i]))])]

\* the file write of either save_papers_for_date
WrittenFiles(fs, d, papers) == [fs EXCEPT ![d] = [exists |-> TRUE, papers |-> papers]]

(***************************************************************************)
(* daily_paper_collector.py                                                *)
(***************************************************************************)
\* collect_daily_papers up to and including save_papers_for_date
Collect(d, found, category_ids, v) ==
    /\ pc = "idle"
    /\ LET existing_papers_list == load_papers_for_date(files, d)
           existing_papers_dict == DictOfPapers(<<>>, existing_papers_list)
           merged_papers == merge_papers_by_topic(search_papers_by_keywords(found, v))
           final_papers == add_incremental_papers(merged_papers,
                                search_papers_by_categories(category_ids, v))
           papers_list == IncrementalMerge(existing_papers_dict, final_papers)
           written == WrittenFiles(files, d, papers_list)
       IN  /\ files' = written
           /\ index' = UpdatedIndex(written, index, d)
           /\ col' = [date_str |-> d, found |-> found, category_ids |-> category_ids,
                      final_papers |-> final_papers,
                      existing_count |-> Len(existing_papers_dict),
                      new_papers_count |-> NewPapersCount(existing_papers_dict, final_papers)]
    /\ pc' = "collected"
    /\ used' = [used EXCEPT !.collect = @ + 1]
    /\ UNCHANGED <<drv, cln, trn, call, task>>

\* One query of either search method.  raw is what the search engine yields
\* for the target date, in order; a record is well formed when building its
\* paper_info raises nothing.  The try block encloses the whole loop over the
\* results: an exception ends the query, and the papers gathered so far are
\* dropped (the keyword search stores [] for the topic, the category search
\* never reaches all_papers.extend).
QueryPapers(raw) ==
    IF \E i \in 1..Len(raw) : ~raw[i].well_formed THEN <<>>
    ELSE [i \in 1..Len(raw) |-> raw[i].paper_id]

\* collect_daily_papers on what the sources yield: one raw list per keyword
\* topic and one per category query
CollectFromSources(d, raw_found, raw_categories, v) ==
    Collect(d, [t \in DOMAIN raw_found |-> QueryPapers(raw_found[t])],
            QueryPapers(raw_categories[1]) \o QueryPapers(raw_categories[2]), v)

\* the statistics have been logged; the script exits
CollectReturn ==
    /\ pc = "collected"
    /\ pc' = "idle"
    /\ col' = NoCol
    /\ UNCHANGED <<files, index, drv, cln, trn, used, call, task>>

(***************************************************************************)
(* The listing (subjects) source.  Its code is not among the sources; it   *)
(* is modelled from the specification: same-id records union only their    *)
(* subjects, a new id is added, the date's file and the index are saved.   *)
(***************************************************************************)
listing_info(id, v, subjects) ==
    [paper_info(id, v, <<>>, <<>>) EXCEPT !.subjects = subjects]

ListingCollect(d, id, v, subjects) ==
    /\ pc = "idle"
    /\ LET existing == load_papers_for_date(files, d)
           i == FirstIndexOf(existing, id)
           papers_list == IF i = 0 THEN Append(existing, listing_info(id, v, subjects))
                          ELSE [existing EXCEPT ![i].subjects = ExtendMissing(@, subjects)]
           written == WrittenFiles(files, d, papers_list)
       IN  /\ files' = written
           /\ index' = UpdatedIndex(written, index, d)
    /\ used' = [used EXCEPT !.listing = @ + 1]
    /\ UNCHANGED <<pc, col, drv, cln, trn, call, task>>

(***************************************************************************)
(* llm_process.py: process_papers_classification                           *)
(***************************************************************************)
\* a variant in which what is dumped is the list papers, not papers_copy
CopyList_Original(papers, papers_copy) == papers

\* papers_copy is a list of references to the dicts of papers: the records
\* it holds, as save_papers_for_date dumps them
CopyList(papers, papers_copy) == [i \in 1..Len(papers_copy) |-> papers[papers_copy[i]]]

RECURSIVE SkipDates(_, _)
\* the iterations of the loop over dates that "continue": no records, or no
\* record to process
SkipDates(dates, fs) ==
    IF dates = <<>> THEN <<>>
    ELSE IF CandidatesFrom(1, load_papers_for_date(fs, Head(dates))) = <<>>
         THEN SkipDates(Tail(dates), fs)
         ELSE dates

\* from the entry of the function to the loop over dates; target_date 0 is None
DriverStart(target_date) ==
    /\ pc = "idle"
    /\ LET dates == load_index(index).dates
       IN  IF dates = <<>> \/ (target_date # 0 /\ ~In(target_date, dates))
           THEN UNCHANGED <<pc, drv>>
           ELSE /\ pc' = "driver_dates"
                /\ drv' = [NoDrv EXCEPT
                            !.dates = IF target_date # 0 THEN <<target_date>> ELSE dates]
    /\ used' = [used EXCEPT !.runs = @ + 1]
    /\ UNCHANGED <<files, index, col, cln, trn, call, task>>

\* the loop over dates: take the next date that has records to process, or
\* leave the function
DriverDate ==
    /\ pc = "driver_dates"
    /\ LET dates == SkipDates(drv.dates, files)
       IN  IF dates = <<>>
           THEN /\ pc' = "idle"
                /\ drv' = NoDrv
           ELSE LET papers == load_papers_for_date(files, Head(dates))
                IN  /\ pc' = "driver_pass"
                    /\ drv' = [dates |-> Tail(dates),
                               date_str |-> Head(dates),
                               papers |-> papers,
                               papers_copy |-> [i \in 1..Len(papers) |-> i],
                               papers_to_process |-> CandidatesFrom(1, papers),
                               done |-> 0,
                               result |-> EmptyResult]
    /\ UNCHANGED <<files, index, col, cln, trn, used, call, task>>

\* a variant that takes the position the record has in the list papers, and
\* finds nothing when papers_copy is shorter than that
FindInCopy_ByPosition(papers, papers_copy, paper) ==
    IF FirstIndexOf(papers, paper.paper_id) <= Len(papers_copy)
    THEN FirstIndexOf(papers, paper.paper_id)
    ELSE 0

\* the position in papers_copy of the first record with the id of paper
FindInCopy(papers, papers_copy, paper) ==
    FirstIndexOf(CopyList(papers, papers_copy), paper.paper_id)

\* one iteration of the loop over papers_to_process: the adapter call, the
\* update of the record, the filter, the save
DriverProcess(responses) ==
    /\ pc = "driver_pass"
    /\ drv.done < Len(drv.papers_to_process)
    /\ LET paper_idx == drv.papers_to_process[drv.done + 1]
           paper == drv.papers[paper_idx]
           result == process_paper_complete(responses)
           i == FindInCopy(drv.papers, drv.papers_copy, paper)
           ref == drv.papers_copy[i]
           papers == IF i = 0 THEN drv.papers
                     ELSE [drv.papers EXCEPT ![ref] = ApplyResult(@, result)]
           papers_copy == IF i # 0 /\ should_filter(papers[ref])
                          THEN Pop(drv.papers_copy, i)
                          ELSE drv.papers_copy
       IN  /\ drv' = [drv EXCEPT !.papers = papers,
                                 !.papers_copy = papers_copy,
                                 !.done = @ + 1,
                                 !.result = result]
           /\ files' = WrittenFiles(files, drv.date_str, CopyList(papers, papers_copy))
           /\ pc' = IF drv.done + 1 = Len(drv.papers_to_process)
                    THEN "driver_dates" ELSE "driver_pass"
    /\ used' = [used EXCEPT !.calls = @ + 1]
    /\ UNCHANGED <<index, col, cln, trn, call, task>>

(***************************************************************************)
(* translate_batch.py                                                      *)
(***************************************************************************)
NoTranslation == [paper_title_zh |-> "", paper_abstract_zh |-> ""]

RECURSIVE BatchAttempt(_, _, _)
\* the retry loop of translate_papers_batch for a batch of n papers: the
\* first response that parses gives one translation per paper
BatchAttempt(attempt, responses, n) ==
    IF attempt > max_retries \/ attempt > Len(responses)
    THEN [i \in 1..n |-> NoTranslation]
    ELSE IF responses[attempt].kind = "json"
         THEN [i \in 1..n |->
                IF i <= Len(responses[attempt].translations)
                THEN responses[attempt].translations[i]
                ELSE NoTranslation]
         ELSE BatchAttempt(attempt + 1, responses, n)

translate_papers_batch(responses, n) == BatchAttempt(1, responses, n)

RECURSIVE LocationsFrom(_, _, _)
\* paper_locations: (date, index) of every record that needs translation
LocationsFrom(dates, i, fs) ==
    IF dates = <<>> THEN <<>>
    ELSE IF i > Len(load_papers_for_date(fs, Head(dates)))
         THEN LocationsFrom(Tail(dates), 1, fs)
         ELSE (IF needs_translation(load_papers_for_date(fs, Head(dates))[i])
               THEN << <<Head(dates), i>> >> ELSE <<>>)
                \o LocationsFrom(dates, i + 1, fs)

\* the two guarded assignments that apply a translation to a record
ApplyTranslation(paper, translation) ==
    [paper EXCEPT
        !.paper_title_zh =
            IF translation.paper_title_zh # "" THEN translation.paper_title_zh ELSE @,
        !.paper_abstract_zh =
            IF translation.paper_abstract_zh # "" THEN translation.paper_abstract_zh ELSE @]

RECURSIVE ApplyBatch(_, _, _)
\* the loop over the translations of one batch, on the lists loaded from the
\* files, which are then saved
ApplyBatch(fs, locations, translations) ==
    IF locations = <<>> THEN fs
    ELSE LET d == Head(locations)[1]
             i == Head(locations)[2]
         IN  ApplyBatch(
                [fs EXCEPT ![d] = [exists |-> TRUE,
                                   papers |-> [load_papers_for_date(fs, d) EXCEPT
                                        ![i] = ApplyTranslation(@, Head(translations))]]],
                Tail(locations), Tail(translations))

batch_size == 5

\* from the entry of translate_empty_papers_new_format to its loop over batches
TranslateStart ==
    /\ pc = "idle"
    /\ LET paper_locations == LocationsFrom(load_index(index).dates, 1, files)
       IN  IF paper_locations = <<>>
           THEN UNCHANGED <<pc, trn>>
           ELSE /\ pc' = "translate"
                /\ trn' = [paper_locations |-> paper_locations, batch_start |-> 0]
    /\ used' = [used EXCEPT !.translate = @ + 1]
    /\ UNCHANGED <<files, index, col, drv, cln, call, task>>

\* one batch: the call, the update of the records, the save
TranslateBatch(responses) ==
    /\ pc = "translate"
    /\ LET total_to_translate == Len(trn.paper_locations)
           batch_end == IF trn.batch_start + batch_size < total_to_translate
                        THEN trn.batch_start + batch_size ELSE total_to_translate
           current_locations == SubSeq(trn.paper_locations, trn.batch_start + 1, batch_end)
           translations == translate_papers_batch(responses, Len(current_locations))
       IN  /\ files' = ApplyBatch(files, current_locations, translations)
           /\ trn' = [trn EXCEPT !.batch_start = @ + batch_size]
           /\ pc' = IF trn.batch_start + batch_size < total_to_translate
                    THEN "translate" ELSE "idle"
    /\ UNCHANGED <<index, col, drv, cln, used, call, task>>

(***************************************************************************)
(* cleanup_empty_papers.py                                                 *)
(***************************************************************************)
\* The text of a per-date file, as a sequence of characters.  What json.dump
\* wrote is "[]" for the empty list and a list of records otherwise ("r"
\* stands for the text of the records); a file that holds other text (one
\* left by an interrupted write, or edited by hand) carries it in a field raw.
Text(file) ==
    IF "raw" \in DOMAIN file THEN file.raw
    ELSE IF file.papers = <<>> THEN <<"[", "]">> ELSE <<"[", "r", "]">>

RECURSIVE LStrip(_)
LStrip(text) == IF text # <<>> /\ Head(text) = " " THEN LStrip(Tail(text)) ELSE text

RECURSIVE RStrip(_)
RStrip(text) ==
    IF text # <<>> /\ text[Len(text)] = " "
    THEN RStrip(SubSeq(text, 1, Len(text) - 1)) ELSE text

\* str.strip()
Strip(text) == RStrip(LStrip(text))

\* json.loads on the texts above: white space between tokens is skipped, a
\* text that is no JSON value raises JSONDecodeError (ok = FALSE)
json_loads(raw) ==
    LET tokens == SelectSeq(raw, LAMBDA c : c # " ")
    IN  IF tokens = <<"[", "]">> THEN [ok |-> TRUE, is_list |-> TRUE, len |-> 0]
        ELSE IF tokens = <<"[", "r", "]">> THEN [ok |-> TRUE, is_list |-> TRUE, len |-> 1]
        ELSE IF tokens = <<"{", "}">> THEN [ok |-> TRUE, is_list |-> FALSE, len |-> 0]
        ELSE [ok |-> FALSE, is_list |-> FALSE, len |-> 0]

\* a variant that also takes a text that does not parse for an empty file
is_empty_daily_json_OrUnparseable(file) ==
    LET raw == Strip(Text(file))
    IN  raw = <<>> \/ raw = <<"[", "]">> \/ ~json_loads(raw).ok
            \/ (json_loads(raw).is_list /\ json_loads(raw).len = 0)

is_empty_daily_json(file) ==
    LET raw == Strip(Text(file))
    IN  IF raw = <<>> \/ raw = <<"[", "]">> THEN TRUE
        ELSE LET data == json_loads(raw)
             IN  IF ~data.ok THEN FALSE
                 ELSE data.is_list /\ data.len = 0

CleanupStart ==
    /\ pc = "idle"
    /\ pc' = "cleanup"
    /\ cln' = [index_obj |-> index,
               dates |-> Range(index.dates),
               todo |-> {d \in Dates : files[d].exists},
               removed_files |-> {}]
    /\ used' = [used EXCEPT !.cleanup = @ + 1]
    /\ UNCHANGED <<files, index, col, drv, trn, call, task>>

\* one iteration of the loop over os.listdir, whose order is arbitrary
CleanupFile(d) ==
    /\ pc = "cleanup"
    /\ d \in cln.todo
    /\ IF is_empty_daily_json(files[d])
       THEN /\ files' = [files EXCEPT ![d] = NoFile]
            /\ cln' = [cln EXCEPT !.todo = @ \ {d},
                                  !.removed_files = @ \cup {d},
                                  !.dates = @ \ {d}]
       ELSE /\ cln' = [cln EXCEPT !.todo = @ \ {d}]
            /\ UNCHANGED files
    /\ UNCHANGED <<index, pc, col, drv, trn, used, call, task>>

\* after the loop: the index is rewritten only if a file was removed, and
\* total_papers is left as it was; cln keeps what the run removed
CleanupFinish ==
    /\ pc = "cleanup"
    /\ cln.todo = {}
    /\ index' = IF cln.removed_files # {}
                THEN [exists |-> TRUE,
                      dates |-> SortedSeqOf(cln.dates),
                      total_papers |-> cln.index_obj.total_papers]
                ELSE index
    /\ pc' = "idle"
    /\ UNCHANGED <<files, col, drv, cln, trn, used, call, task>>

\* os.remove raises: the file stays and the date stays in the local set
CleanupRemoveFails(d) ==
    /\ pc = "cleanup"
    /\ d \in cln.todo
    /\ is_empty_daily_json(files[d])
    /\ cln' = [cln EXCEPT !.todo = @ \ {d}]
    /\ UNCHANGED <<files, index, pc, col, drv, trn, used, call, task>>

\* after the loop, with files removed: save_index catches the exception of
\* a write that fails and main ends with the index as it was
CleanupWriteFails ==
    /\ pc = "cleanup"
    /\ cln.todo = {}
    /\ cln.removed_files # {}
    /\ pc' = "idle"
    /\ UNCHANGED <<files, index, col, drv, cln, trn, used, call, task>>

\* the process is stopped inside the loop of main or before save_index
CleanupInterrupt ==
    /\ pc = "cleanup"
    /\ pc' = "idle"
    /\ UNCHANGED <<files, index, col, drv, cln, trn, used, call, task>>

(***************************************************************************)
(* What the outside world can answer.                                      *)
(***************************************************************************)
\* per keyword topic, the identifiers its query returns
FoundMaps == [{"TTS", "MIR"} -> AscSeqs(NumIds)]

\* the two category queries: the second returns nothing or, the papers being
\* cross-listed, the same papers again
CategoryLists == {a \o b : <<a, b>> \in {<<x, y>> \in AscSeqs(NumIds) \X AscSeqs(NumIds) :
                                            y = <<>> \/ y = x}}

List(items) == [is_list |-> TRUE, items |-> items]
Bare(string) == [is_list |-> FALSE, items |-> <<string>>]

Json(title_zh, abstract_zh, topic, category) ==
    [kind |-> "json", paper_title_zh |-> title_zh, paper_abstract_zh |-> abstract_zh,
     topic |-> topic, category |-> category]
Failed(kind) ==
    [kind |-> kind, paper_title_zh |-> "", paper_abstract_zh |-> "",
     topic |-> List(<<>>), category |-> List(<<>>)]

\* translations and classifications an LLM answer can carry
Translations == {<<"", "">>, <<"zh1", "zh1">>, <<"zh2", "">>}
TranslationPairs ==
    {[paper_title_zh |-> t[1], paper_abstract_zh |-> t[2]] : t \in Translations}
Classifications ==
    { <<List(<<>>), List(<<>>)>>,
      <<List(<<"MIR">>), List(<<"Music">>)>>,
      <<List(<<"Other">>), Bare("Other")>>,
      <<List(<<"TTS", "Bogus">>), List(<<"Bogus">>)>>,
      <<List(<<"Other", "Other">>), List(<<"Speech">>)>>,
      <<Bare(""), List(<<"Other">>)>> }

JsonResponses ==
    {Json(t[1], t[2], c[1], c[2]) : t \in Translations, c \in Classifications}

\* the answers to the requests of one adapter call: n failed requests, then
\* one that parses
ResponseSeqs(answers) ==
    {[i \in 1..(n + 1) |->
        IF i <= n THEN Failed(IF i = 2 THEN "unparseable" ELSE "error") ELSE r]
     : n \in 0..max_retries, r \in answers}

(***************************************************************************)
(* One call of an adapter, request by request: process_paper_complete      *)
(* (fn "complete") and translate_papers_batch (fn "batch", n papers).      *)
(* call.responses[k] is what request number k gets:                        *)
(*   "json"          the content parses into the object the adapter reads  *)
(*   "not_object"    the content parses into another JSON value, and       *)
(*                   reading the fields from it raises                     *)
(*   "unparseable"   json.loads raises JSONDecodeError                     *)
(*   "error"         the request raises (connection, time-out, HTTP)       *)
(*   "rate_limited"  the request raises with status 429                    *)
(***************************************************************************)
\* a variant in which the last handler takes request errors only
Handler_RequestErrorsOnly(fn, kind) ==
    IF kind = "unparseable" THEN "json"
    ELSE IF kind \in {"error", "rate_limited"} THEN "request"
    ELSE "none"

\* the except clause that takes the exception of a failed attempt; in
\* process_paper_complete the clause for request errors is commented out
Handler(fn, kind) ==
    IF kind = "unparseable" THEN "json"
    ELSE IF fn = "batch" /\ kind \in {"error", "rate_limited"} THEN "request"
    ELSE "generic"

\* what a call returns when it gives up
EmptyOf(fn, n) == IF fn = "complete" THEN EmptyResult ELSE [i \in 1..n |-> NoTranslation]

\* what a call returns for a response that parsed
ParsedOf(fn, response, n) ==
    IF fn = "complete" THEN ValidatedResult(response)
    ELSE [i \in 1..n |->
            IF i <= Len(response.translations) THEN response.translations[i]
            ELSE NoTranslation]

\* one iteration of "for attempt in range(max_retries)"
CallAttempt ==
    /\ call.state = "running"
    /\ call.attempt < max_retries
    /\ LET response == call.responses[call.attempt + 1]
           last == call.attempt + 1 = max_retries
           handler == Handler(call.fn, response.kind)
       IN  call' =
            IF response.kind = "json"
            THEN [call EXCEPT !.attempt = @ + 1, !.state = "returned",
                              !.result = ParsedOf(call.fn, response, call.n)]
            ELSE IF handler = "none"
            THEN [call EXCEPT !.attempt = @ + 1, !.state = "raised"]
            ELSE IF last /\ ~(handler = "request" /\ response.kind = "rate_limited")
            THEN [call EXCEPT !.attempt = @ + 1, !.state = "returned",
                              !.result = EmptyOf(call.fn, call.n)]
            ELSE [call EXCEPT !.attempt = @ + 1]
    /\ UNCHANGED <<files, index, pc, col, drv, cln, trn, used, task>>

\* the return that follows the loop
CallLoopEnd ==
    /\ call.state = "running"
    /\ call.attempt = max_retries
    /\ call' = [call EXCEPT !.state = "returned", !.result = EmptyOf(call.fn, call.n)]
    /\ UNCHANGED <<files, index, pc, col, drv, cln, trn, used, task>>

FailureKinds == {"not_object", "unparseable", "error", "rate_limited"}

\* what a request of process_paper_complete can get
CompleteResponses ==
    { Json("zh1", "zh1", List(<<"MIR">>), List(<<"Music">>)),
      Json("zh2", "", List(<<"TTS", "Bogus">>), Bare("")) }
    \cup {Failed(kind) : kind \in FailureKinds}

\* what a request of translate_papers_batch can get, for a batch of n papers
BatchResponses(n) ==
    {[kind |-> "json", translations |-> t] :
        t \in {<<>>, [i \in 1..n |-> [paper_title_zh |-> "zh1", paper_abstract_zh |-> "zh1"]]}}
    \cup {[kind |-> kind, translations |-> <<>>] : kind \in FailureKinds}

\* a call about to make its first request, with the answers its requests get
Calls ==
    {[fn |-> "complete", n |-> 1, responses |-> responses, attempt |-> 0,
      state |-> "running", result |-> <<>>] :
        responses \in [1..max_retries -> CompleteResponses]}
    \cup
    {[fn |-> "batch", n |-> NumIds, responses |-> responses, attempt |-> 0,
      state |-> "running", result |-> <<>>] :
        responses \in [1..max_retries -> BatchResponses(NumIds)]}

InitAdapter ==
    /\ files = [d \in Dates |-> NoFile]
    /\ index = NoIndex
    /\ pc = "idle"
    /\ col = NoCol
    /\ drv = NoDrv
    /\ cln = NoCln
    /\ trn = NoTrn
    /\ used = [collect |-> 0, listing |-> 0, runs |-> 0, calls |-> 0, cleanup |-> 0,
               translate |-> 0]
    /\ call \in Calls
    /\ task = NoTask

NextAdapter == CallAttempt \/ CallLoopEnd

\* a request ends, with a response or with an exception (timeout=60), and
\* the loop takes its next iteration
SpecAdapter ==
    /\ InitAdapter
    /\ [][NextAdapter]_vars
    /\ WF_vars(CallAttempt)
    /\ WF_vars(CallLoopEnd)

(***************************************************************************)
(* scheduler.py: daily_task.  task.log is what scheduler.log holds of the  *)
(* commands: one entry per command started, with how it ended.             *)
(***************************************************************************)
steps == <<"daily_paper_collector", "llm_process", "cleanup_empty_papers",
           "git add", "git commit", "git push">>

\* how subprocess.run can end: return code 0, another return code,
\* TimeoutExpired, another exception
Outcomes == {"ok", "failed", "timeout", "exception"}

\* a variant that takes a command that timed out for a success
run_command_TimeoutPasses(outcome) == outcome \in {"ok", "timeout"}

\* the value run_command returns
run_command(outcome) == outcome = "ok"

\* the schedule fires: daily_task up to its loop
TaskStart ==
    /\ task.state = "idle"
    /\ task.runs < MaxTasks
    /\ task' = [task EXCEPT !.state = "loop", !.runs = @ + 1, !.next = 1,
                            !.success_count = 0]
    /\ UNCHANGED <<files, index, pc, col, drv, cln, trn, used, call>>

\* the loop takes its next step and run_command starts the command
StepStart ==
    /\ task.state = "loop"
    /\ task.next <= Len(steps)
    /\ task' = [task EXCEPT
                    !.state = "command",
                    !.log = Append(@, [run |-> task.runs, step |-> steps[task.next],
                                       outcome |-> "running"])]
    /\ UNCHANGED <<files, index, pc, col, drv, cln, trn, used, call>>

\* the command ends; the loop goes on if run_command returns True and is
\* left by break otherwise
StepEnd(outcome) ==
    /\ task.state = "command"
    /\ task' = IF run_command(outcome)
               THEN [task EXCEPT !.state = "loop", !.next = @ + 1,
                                 !.success_count = @ + 1,
                                 !.log[Len(task.log)].outcome = outcome]
               ELSE [task EXCEPT !.state = "idle",
                                 !.log[Len(task.log)].outcome = outcome]
    /\ UNCHANGED <<files, index, pc, col, drv, cln, trn, used, call>>

\* the loop has run every step
TaskEnd ==
    /\ task.state = "loop"
    /\ task.next > Len(steps)
    /\ task' = [task EXCEPT !.state = "idle"]
    /\ UNCHANGED <<files, index, pc, col, drv, cln, trn, used, call>>

NextScheduler ==
    \/ TaskStart
    \/ StepStart
    \/ \E outcome \in Outcomes : StepEnd(outcome)
    \/ TaskEnd

SpecScheduler == Init /\ [][NextScheduler]_vars

(***************************************************************************)
(* The pipeline.  A world W fixes which dates are collected, what the      *)
(* sources and the LLM can answer, and how many runs are explored.         *)
(***************************************************************************)
CollectorNext(W) ==
    \/ \E d \in W.dates, found \in W.found, c \in W.category_ids, v \in W.versions :
            used.collect < W.max_collect /\ Collect(d, found, c, v)
    \/ CollectReturn

ListingNext(W) ==
    \E d \in W.dates, id \in Ids, subjects \in SubjectLists :
        used.listing < W.max_listing /\ ListingCollect(d, id, "v1", subjects)

DriverNext(W) ==
    \/ \E target_date \in W.target_dates :
            used.runs < W.max_runs /\ DriverStart(target_date)
    \/ DriverDate
    \/ \E responses \in ResponseSeqs(W.answers) :
            used.calls < W.max_calls /\ DriverProcess(responses)

\* the answers to the requests of one batch call, for the papers of the batch
BatchResponseSeqs(W) ==
    {[i \in 1..(n + 1) |->
        IF i <= n
        THEN [kind |-> IF i = 2 THEN "unparseable" ELSE "error", translations |-> <<>>]
        ELSE [kind |-> "json", translations |-> t]]
     : n \in 0..max_retries,
       t \in UNION {[1..k -> W.translations] : k \in 0..Len(trn.paper_locations)}}

TranslateNext(W) ==
    \/ used.translate < W.max_translate /\ TranslateStart
    \/ \E responses \in BatchResponseSeqs(W) : TranslateBatch(responses)

CleanupNext(W) ==
    \/ used.cleanup < W.max_cleanup /\ CleanupStart
    \/ \E d \in Dates : CleanupFile(d)
    \/ CleanupFinish

\* only the TTS query finds papers, one upstream version
LeanFound == {found \in FoundMaps : found["MIR"] = <<>>}
LeanAnswers ==
    { Json("", "", List(<<>>), List(<<>>)),
      Json("zh1", "zh1", List(<<"MIR">>), List(<<"Music">>)),
      Json("zh1", "zh1", List(<<"Other">>), List(<<"Other">>)) }

GoodAnswers == { Json("zh1", "zh1", List(<<"MIR">>), List(<<"Music">>)) }

\* every date, every script: the ledger and the files over the days
Pipeline ==
    [dates |-> Dates, found |-> LeanFound, category_ids |-> AscSeqs(NumIds),
     versions |-> {"v1"}, target_dates |-> {0} \cup Dates, answers |-> LeanAnswers,
     max_collect |-> MaxCollect, max_listing |-> 0, max_runs |-> MaxRuns,
     max_calls |-> NumDates * NumIds, max_cleanup |-> MaxCleanup]

\* one date, every answer of the LLM: the enrichment of a date's records
Enrichment ==
    [dates |-> {1}, found |-> LeanFound, category_ids |-> AscSeqs(NumIds),
     versions |-> {"v1"}, target_dates |-> {0}, answers |-> JsonResponses,
     max_collect |-> 1, max_listing |-> MaxListing, max_runs |-> MaxRuns,
     max_calls |-> MaxCalls, max_cleanup |-> 0,
     translations |-> TranslationPairs, max_translate |-> MaxTranslate]

\* one date, every answer of the sources: collection and merge
Collection ==
    [dates |-> {1}, found |-> FoundMaps, category_ids |-> CategoryLists,
     versions |-> Versions, target_dates |-> {0}, answers |-> GoodAnswers,
     max_collect |-> MaxCollect, max_listing |-> MaxListing, max_runs |-> 1,
     max_calls |-> 1, max_cleanup |-> 0]

\* one date whose sources answer every run the same: the TTS query finds the
\* first paper, the category queries the last one
RerunFound == [t \in {"TTS", "MIR"} |-> IF t = "TTS" THEN <<1>> ELSE <<>>]
Rerun ==
    [dates |-> {1}, found |-> {RerunFound}, category_ids |-> {<<NumIds>>},
     versions |-> {"v1"}, target_dates |-> {0}, answers |-> LeanAnswers,
     max_collect |-> MaxCollect, max_listing |-> 0, max_runs |-> MaxRuns,
     max_calls |-> MaxRuns * NumIds, max_cleanup |-> 0]

\* every date, and calls enough for every candidate of every run: the passes
\* of the driver from their first candidate to their last
Passes ==
    [dates |-> Dates, found |-> LeanFound, category_ids |-> {<<>>},
     versions |-> {"v1"}, target_dates |-> {0}, answers |-> LeanAnswers,
     max_collect |-> MaxCollect, max_listing |-> 0, max_runs |-> MaxRuns,
     max_calls |-> MaxRuns * NumDates * NumIds, max_cleanup |-> 0]

\* one date with a keyword-found and a category-found paper, every answer of
\* the LLM: what the adapter makes of an answer
Answers ==
    [dates |-> {1}, found |-> {RerunFound}, category_ids |-> {<<NumIds>>},
     versions |-> {"v1"}, target_dates |-> {0}, answers |-> JsonResponses,
     max_collect |-> 1, max_listing |-> 0, max_runs |-> MaxRuns,
     max_calls |-> MaxCalls, max_cleanup |-> 0]

Next == CollectorNext(Pipeline) \/ DriverNext(Pipeline) \/ CleanupNext(Pipeline)
NextEnrichment ==
    \/ CollectorNext(Enrichment) \/ ListingNext(Enrichment)
    \/ DriverNext(Enrichment) \/ TranslateNext(Enrichment)
NextCollection ==
    CollectorNext(Collection) \/ ListingNext(Collection) \/ DriverNext(Collection)

NextRerun == CollectorNext(Rerun) \/ DriverNext(Rerun)

NextPasses == CollectorNext(Passes) \/ DriverNext(Passes)

NextAnswers == CollectorNext(Answers) \/ DriverNext(Answers)

Spec == Init /\ [][Next]_vars
SpecEnrichment == Init /\ [][NextEnrichment]_vars
SpecCollection == Init /\ [][NextCollection]_vars

SpecRerun == Init /\ [][NextRerun]_vars

SpecAnswers == Init /\ [][NextAnswers]_vars

\* a run of the driver goes on by itself: the loop over the dates and the
\* loop over the candidates take their next iteration, and a call of the
\* adapter returns
SpecPasses ==
    /\ Init
    /\ [][NextPasses]_vars
    /\ WF_vars(DriverDate)
    /\ WF_vars(\E responses \in ResponseSeqs(Passes.answers) :
                    used.calls < Passes.max_calls /\ DriverProcess(responses))

\* answers that carry both translations and a topic and a category of the
\* vocabulary, one of them beside a value outside it
CompleteAnswers ==
    { Json("zh1", "zh1", List(<<"MIR">>), List(<<"Music">>)),
      Json("zh1", "zh1", List(<<"Other">>), List(<<"Other">>)),
      Json("zh2", "zh2", List(<<"TTS", "Bogus">>), Bare("Speech")) }

\* every date, runs of the driver with no target date; in the last run every
\* call of the adapter returns a complete result, before it any result
Progress ==
    [dates |-> Dates, found |-> LeanFound, category_ids |-> {<<>>, <<NumIds>>},
     versions |-> {"v1"}, target_dates |-> {0}, answers |-> LeanAnswers,
     complete_answers |-> CompleteAnswers,
     max_collect |-> MaxCollect, max_listing |-> 0, max_runs |-> MaxRuns,
     max_calls |-> MaxRuns * NumDates * NumIds, max_cleanup |-> 0]

\* what the requests of the next adapter call are answered: in the last run
\* a complete answer after fewer failed requests than there are attempts
ProgressResponses ==
    IF used.runs >= Progress.max_runs
    THEN {responses \in ResponseSeqs(Progress.complete_answers) :
            Len(responses) <= max_retries}
    ELSE ResponseSeqs(Progress.answers)

NextProgress ==
    \/ CollectorNext(Progress)
    \/ used.runs < Progress.max_runs /\ DriverStart(0)
    \/ DriverDate
    \/ \E responses \in ProgressResponses :
            used.calls < Progress.max_calls /\ DriverProcess(responses)

\* the scripts go on by themselves: the collector returns, the scheduler
\* starts the driver again, the driver takes its next date and its next
\* candidate, a call of the adapter returns
SpecProgress ==
    /\ Init
    /\ [][NextProgress]_vars
    /\ WF_vars(CollectReturn)
    /\ WF_vars(used.runs < Progress.max_runs /\ DriverStart(0))
    /\ WF_vars(DriverDate)
    /\ WF_vars(\E responses \in ProgressResponses :
                    used.calls < Progress.max_calls /\ DriverProcess(responses))

\* the raw lists a query can yield: identifiers ascending, any record of the
\* list well formed or not
RECURSIVE RawLists(_)
RawLists(n) ==
    IF n = 0 THEN {<<>>}
    ELSE RawLists(n - 1) \cup
         {Append(s, [paper_id |-> n, well_formed |-> w]) :
            s \in RawLists(n - 1), w \in BOOLEAN}

\* one date; the TTS query and the first category query yield any raw list,
\* the MIR query nothing or the last paper, the second category query nothing
Sources ==
    [dates |-> {1},
     raw_found |-> {f \in [{"TTS", "MIR"} -> RawLists(NumIds)] :
                        f["MIR"] \in {<<>>, <<[paper_id |-> NumIds, well_formed |-> TRUE]>>}},
     raw_categories |-> {<<a, <<>> >> : a \in RawLists(NumIds)},
     versions |-> {"v1"}, max_collect |-> MaxCollect]

SourcesNext(W) ==
    \/ \E d \in W.dates, raw_found \in W.raw_found,
          raw_categories \in W.raw_categories, v \in W.versions :
            used.collect < W.max_collect /\ CollectFromSources(d, raw_found, raw_categories, v)
    \/ CollectReturn

NextSources == SourcesNext(Sources)

SpecSources == Init /\ [][NextSources]_vars

\* texts of a per-date file that no json.dump of the scripts wrote: blank,
\* an empty list with white space, an object, a text cut short
ForeignTexts ==
    { <<>>, <<" ">>, <<" ", "[", "]", " ">>, <<"[", " ", "]">>, <<"{", "}">>,
      <<"[">>, <<"[", "r">> }

\* what cleanup can find at the path of a date
CleanupFileStates ==
    {NoFile, [exists |-> TRUE, papers |-> <<>>],
     [exists |-> TRUE, papers |-> <<paper_info(1, "v1", <<"TTS">>, <<"Speech">>)>>]}
    \cup {[exists |-> TRUE, papers |-> <<>>, raw |-> text] : text \in ForeignTexts}

\* cleanup alone, started on any per-date files and any ledger over them
Cleaning == [max_cleanup |-> MaxCleanup]

InitCleanup ==
    /\ files \in [Dates -> CleanupFileStates]
    /\ index \in {NoIndex} \cup
            {[exists |-> TRUE, dates |-> SortedSeqOf(D),
              total_papers |-> SumSeq([d \in 1..NumDates |->
                                        IF d \in D THEN Len(files[d].papers) ELSE 0])]
             : D \in SUBSET Dates}
    /\ pc = "idle"
    /\ col = NoCol
    /\ drv = NoDrv
    /\ cln = NoCln
    /\ trn = NoTrn
    /\ used = [collect |-> 0, listing |-> 0, runs |-> 0, calls |-> 0, cleanup |-> 0,
               translate |-> 0]
    /\ call = NoCall
    /\ task = NoTask

NextCleanup ==
    \/ CleanupNext(Cleaning)
    \/ \E d \in Dates : CleanupRemoveFails(d)
    \/ CleanupWriteFails
    \/ CleanupInterrupt

SpecCleanup == InitCleanup /\ [][NextCleanup]_vars

(***************************************************************************)
(* Notions the properties are stated in.                                   *)
(***************************************************************************)
\* the dates whose persisted record set holds at least one record
NonEmptyDates(fs) == {d \in Dates : fs[d].papers # <<>>}

StoredDates(fs) == {d \in Dates : fs[d].exists}

\* some subject of the record contains some whitelist string
Whitelisted(p) ==
    \E i \in 1..Len(p.subjects) : \E j \in 1..Len(whitelist_subjects) :
        LET subject == p.subjects[i]
            w == whitelist_subjects[j]
        IN  \E a \in 0..Len(subject) :
                /\ a + Len(w) <= Len(subject)
                /\ \A k \in 1..Len(w) : subject[a + k] = w[k]

OnlyOther(p) == p.category = <<"Other">> \/ p.topic = <<"Other">>

\* the records of the current pass that the driver has processed, as they
\* are after processing
Processed == {drv.papers[drv.papers_to_process[k]] : k \in 1..drv.done}

\* a step that processes one candidate, and the candidate before the step
ProcessStep == pc = "driver_pass" /\ drv'.done = drv.done + 1
Candidate == drv.papers[drv.papers_to_process[drv.done + 1]]
CandidateAfter == drv'.papers[drv.papers_to_process[drv.done + 1]]

\* a step that collects, merges and saves one date
CollectStep == pc = "idle" /\ pc' = "collected"

RecordOf(list, id) == list[FirstIndexOf(list, id)]

C2_TotalIsSumOfSizes ==
    pc = "idle" =>
        index.total_papers = SumSeq([d \in 1..NumDates |-> Len(files[d].papers)])

(***************************************************************************)
(* C3.  When the adapter fails for a candidate (its result is all empty),  *)
(* the record is still in the persisted record set afterwards, with every  *)
(* field as it was.                                                        *)
(***************************************************************************)
C3_FailureLeavesRecord ==
    [][ (ProcessStep /\ drv'.result = EmptyResult) =>
            In(Candidate, files'[drv.date_str].papers) ]_vars

(***************************************************************************)
(* C4.  A processed candidate is gone from the persisted record set        *)
(* exactly when it is not whitelisted and its categories are exactly       *)
(* ["Other"] or its topics are exactly ["Other"]; empty topics or          *)
(* categories alone do not remove it.                                      *)
(***************************************************************************)
C4_RemovedExactlyWhenOnlyOther ==
    \A p \in Processed :
        (p.paper_id \notin IdsOf(files[drv.date_str].papers))
            <=> (~Whitelisted(p) /\ OnlyOther(p))

\* in one pass a candidate was removed and a candidate without topics and
\* categories was kept
C4_Witness ==
    /\ \E p \in Processed : p.paper_id \notin IdsOf(files[drv.date_str].papers)
    /\ \E p \in Processed :
            /\ p.topic = <<>>
            /\ p.category = <<>>
            /\ p.paper_id \in IdsOf(files[drv.date_str].papers)

(***************************************************************************)
(* C5.  A processed candidate that is whitelisted is still in the          *)
(* persisted record set, whatever its topics and categories.               *)
(***************************************************************************)
C5_WhitelistedIsKept ==
    \A p \in Processed :
        Whitelisted(p) => In(p, files[drv.date_str].papers)

\* a whitelisted record classified as Other only was processed and kept
C5_Witness ==
    \E p \in Processed :
        /\ Whitelisted(p)
        /\ p.category = <<"Other">>
        /\ p.topic = <<"Other">>
        /\ In(p, files[drv.date_str].papers)

(***************************************************************************)
(* C6.  As claimed: applying an adapter result leaves each of the two      *)
(* translated fields, topics and categories either unchanged or takes it   *)
(* from empty to non-empty.                                                *)
(***************************************************************************)
UnchangedOrFilled(before, after, empty) ==
    after = before \/ (before = empty /\ after # empty)

UnchangedOrNonEmpty(before, after, empty) == after = before \/ after # empty

TranslateStep == pc = "translate"

C7_TopicsAndCategoriesAreUnioned ==
    [][ ProcessStep =>
            /\ Range(CandidateAfter.topic) =
                    Range(Candidate.topic) \cup Range(drv'.result.topic)
            /\ Range(CandidateAfter.category) =
                    Range(Candidate.category) \cup Range(drv'.result.category) ]_vars

(***************************************************************************)
(* C8.  Collecting into a date that already has a record set adds every    *)
(* new id, and changes a persisted record only by appending to its topics  *)
(* and categories the values of the batch it lacks: position, title,       *)
(* abstract, translated fields, authors, update time and subjects stay.    *)
(***************************************************************************)
IsPrefix(s, t) == Len(s) <= Len(t) /\ SubSeq(t, 1, Len(s)) = s

C8_MergeIsAdditive ==
    [][ CollectStep =>
            LET d == col'.date_str
                before == load_papers_for_date(files, d)
                after == files'[d].papers
                batch == col'.final_papers
            IN  /\ \A j \in 1..Len(batch) :
                        batch[j].paper_id \notin IdsOf(before) => In(batch[j], after)
                /\ Len(after) = Len(before) + Cardinality(IdsOf(batch) \ IdsOf(before))
                /\ \A i \in 1..Len(before) :
                        /\ [after[i] EXCEPT !.topic = <<>>, !.category = <<>>]
                                = [before[i] EXCEPT !.topic = <<>>, !.category = <<>>]
                        /\ IsPrefix(before[i].topic, after[i].topic)
                        /\ IsPrefix(before[i].category, after[i].category)
                        /\ before[i].paper_id \notin IdsOf(batch) => after[i] = before[i]
                        /\ before[i].paper_id \in IdsOf(batch) =>
                            LET new == RecordOf(batch, before[i].paper_id)
                            IN  /\ Range(after[i].topic) \subseteq
                                        Range(before[i].topic) \cup Range(new.topic)
                                /\ Range(after[i].category) \subseteq
                                        Range(before[i].category) \cup Range(new.category) ]_vars

\* a batch brought a new id and, under another title, the id of a persisted
\* record that is already translated
C8_Witness ==
    /\ pc = "collected"
    /\ col.existing_count > 0
    /\ col.new_papers_count > 0
    /\ \E i \in 1..Len(files[col.date_str].papers) :
        LET p == files[col.date_str].papers[i]
        IN  /\ p.paper_title_zh # ""
            /\ p.paper_id \in IdsOf(col.final_papers)
            /\ RecordOf(col.final_papers, p.paper_id).paper_title # p.paper_title

(***************************************************************************)
(* C9.  Union: a paper found by several keyword queries carries exactly    *)
(* the topics of the queries that found it and their categories; and for   *)
(* an id both persisted and in the batch, the saved record's topics,       *)
(* categories and subjects are each, as a set, the union of the two.       *)
(***************************************************************************)
TopicsFinding(found, id) == {t \in DOMAIN found : In(id, found[t])}

C9_MergedFieldsAreUnions ==
    [][ CollectStep =>
            LET d == col'.date_str
                before == load_papers_for_date(files, d)
                after == files'[d].papers
                batch == col'.final_papers
            IN  /\ \A id \in Ids : TopicsFinding(col'.found, id) # {} =>
                        /\ id \in IdsOf(batch)
                        /\ Range(RecordOf(batch, id).topic) = TopicsFinding(col'.found, id)
                        /\ Range(RecordOf(batch, id).category) =
                                {topic_categories[t] : t \in TopicsFinding(col'.found, id)}
                /\ \A id \in IdsOf(before) \cap IdsOf(batch) :
                        LET old == RecordOf(before, id)
                            new == RecordOf(batch, id)
                            merged == RecordOf(after, id)
                        IN  /\ Range(merged.topic) = Range(old.topic) \cup Range(new.topic)
                            /\ Range(merged.category) =
                                    Range(old.category) \cup Range(new.category)
                            /\ Range(merged.subjects) =
                                    Range(old.subjects) \cup Range(new.subjects) ]_vars

\* a persisted record with subjects was found again by both keyword queries
C9_Witness ==
    /\ pc = "collected"
    /\ col.existing_count > 0
    /\ \E i \in 1..Len(files[col.date_str].papers) :
        LET p == files[col.date_str].papers[i]
        IN  /\ p.subjects # <<>>
            /\ TopicsFinding(col.found, p.paper_id) = {"TTS", "MIR"}
            /\ Range(p.category) = {"Speech", "Music"}

(***************************************************************************)
(* C10.  As claimed: category-query precedence.  Given a keyword-derived   *)
(* record of an id, in the batch of the run or in the persisted record     *)
(* set, and a category-query record of the same id, the merged record's    *)
(* topics and categories are those of the keyword-derived record: the      *)
(* category-query record contributes nothing.                              *)
(***************************************************************************)
KeywordTopics(found, id) ==
    SelectSeq(processed_keywords, LAMBDA t : In(id, found[t]))

KeywordDerived(p) ==
    /\ p.topic # <<>>
    /\ Range(p.category) = {topic_categories[t] : t \in Range(p.topic)}

\* the ids of a run for which the category queries returned a record and
\* the keyword queries none
CategoryOnlyIds(c) ==
    {id \in Ids : KeywordTopics(c.found, id) = <<>> /\ In(id, c.category_ids)}

\* in the batch of a run, the record of an id that a keyword query and a
\* category query both found is the keyword-derived one
BatchKeepsKeywordRecord(c) ==
    \A id \in Ids :
        (KeywordTopics(c.found, id) # <<>> /\ In(id, c.category_ids)) =>
            /\ Cardinality({j \in 1..Len(c.final_papers) :
                                c.final_papers[j].paper_id = id}) = 1
            /\ RecordOf(c.final_papers, id).topic = KeywordTopics(c.found, id)
            /\ Range(RecordOf(c.final_papers, id).category) =
                    {topic_categories[t] : t \in Range(KeywordTopics(c.found, id))}
            /\ ~In("Other", RecordOf(c.final_papers, id).category)

C10_CategoryQueryNeverContributes ==
    [][ CollectStep =>
            /\ BatchKeepsKeywordRecord(col')
            /\ \A id \in CategoryOnlyIds(col') \cap IdsOf(files[col'.date_str].papers) :
                LET old == RecordOf(files[col'.date_str].papers, id)
                    merged == RecordOf(files'[col'.date_str].papers, id)
                IN  KeywordDerived(old) =>
                        merged.topic = old.topic /\ merged.category = old.category ]_vars

(* C10, amended.  Within one collection run, for an id that a keyword      *)
(* query and a category query both found, the record of the batch is the   *)
(* keyword-derived one and the category query's "Other" is not added.      *)
(* When the id is only in the persisted record set and the run finds it by *)
(* a category query alone, the persisted record keeps its topics and its   *)
(* categories gain "Other".                                                *)
C10_CategoryQueryAddsNothing ==
    [][ CollectStep =>
            /\ BatchKeepsKeywordRecord(col')
            /\ \A id \in CategoryOnlyIds(col') \cap IdsOf(files[col'.date_str].papers) :
                LET old == RecordOf(files[col'.date_str].papers, id)
                    merged == RecordOf(files'[col'.date_str].papers, id)
                IN  /\ merged.topic = old.topic
                    /\ Range(merged.category) = Range(old.category) \cup {"Other"} ]_vars

\* one run found an id by a keyword query and by a category query, and by
\* a category query alone an id whose persisted record is keyword-derived
C10_Witness ==
    /\ pc = "collected"
    /\ \E id \in Ids :
            KeywordTopics(col.found, id) # <<>> /\ In(id, col.category_ids)
    /\ \E id \in CategoryOnlyIds(col) :
            /\ RecordOf(col.final_papers, id).category = <<"Other">>
            /\ RecordOf(files[col.date_str].papers, id).topic = <<"TTS">>
            /\ RecordOf(files[col.date_str].papers, id).category = <<"Speech", "Other">>

(***************************************************************************)
(* C11.  Merge idempotence: collecting a batch equal to the persisted      *)
(* record set (the same ids, and for each id the same topics, categories   *)
(* and subjects as sets) leaves a record set equal to the original under   *)
(* the same comparison, with no record added.                              *)
(***************************************************************************)
SameListFields(p, q) ==
    /\ Range(p.topic) = Range(q.topic)
    /\ Range(p.category) = Range(q.category)
    /\ Range(p.subjects) = Range(q.subjects)

EqualRecordSets(a, b) ==
    /\ IdsOf(a) = IdsOf(b)
    /\ \A id \in IdsOf(a) : SameListFields(RecordOf(a, id), RecordOf(b, id))

C11_MergeIsIdempotent ==
    [][ CollectStep =>
            LET before == load_papers_for_date(files, col'.date_str)
                after == files'[col'.date_str].papers
                batch == col'.final_papers
            IN  (before # <<>> /\ EqualRecordSets(batch, before)) =>
                    /\ EqualRecordSets(after, before)
                    /\ Len(after) = Len(before) ]_vars

\* a batch of two records, one of them under both topics, under new titles,
\* was merged into a persisted set equal to it
C11_Witness ==
    /\ pc = "collected"
    /\ col.existing_count = 2
    /\ col.new_papers_count = 0
    /\ EqualRecordSets(col.final_papers, files[col.date_str].papers)
    /\ \E i \in 1..2 :
        /\ Len(col.final_papers[i].topic) = 2
        /\ files[col.date_str].papers[i].paper_title # col.final_papers[i].paper_title

(***************************************************************************)
(* C13.  In every reachable state no persisted per-date record set holds   *)
(* two records with the same id.                                           *)
(***************************************************************************)
NoDuplicateIds(list) ==
    \A i, j \in 1..Len(list) : list[i].paper_id = list[j].paper_id => i = j

C13_IdsAreUnique ==
    \A d \in Dates : NoDuplicateIds(files[d].papers)

\* a run whose category queries returned the same id twice, an id the
\* keyword queries found too and the date's record set already held
C13_Witness ==
    /\ pc = "collected"
    /\ col.existing_count > 0
    /\ col.new_papers_count = 0
    /\ \E i, j \in 1..Len(col.category_ids) :
        /\ i # j
        /\ col.category_ids[i] = col.category_ids[j]
        /\ KeywordTopics(col.found, col.category_ids[i]) # <<>>
    /\ Len(files[col.date_str].papers) = Cardinality(IdsOf(files[col.date_str].papers))

(***************************************************************************)
(* C12.  Re-running the pipeline on complete data is a no-op on the record *)
(* sets: when the sources answer as before and every record of the date is *)
(* translated and classified, a further collection leaves every persisted  *)
(* record as it was, in every field (a record that is complete is not a    *)
(* candidate, so the enrichment that follows does not restore it).         *)
(***************************************************************************)
Complete(papers) ==
    /\ papers # <<>>
    /\ \A i \in 1..Len(papers) :
            ~needs_translation(papers[i]) /\ ~needs_classification(papers[i])

C12_RerunLeavesRecords ==
    [][ (CollectStep /\ used.collect >= 1 /\ used.runs >= 1
            /\ Complete(load_papers_for_date(files, col'.date_str))) =>
            \A i \in 1..Len(files[col'.date_str].papers) :
                In(files[col'.date_str].papers[i], files'[col'.date_str].papers) ]_vars

(***************************************************************************)
(* C14.  In every reachable state the topics and the categories of every   *)
(* persisted record are duplicate-free.                                    *)
(***************************************************************************)
NoDuplicates(list) ==
    \A i, j \in 1..Len(list) : list[i] = list[j] => i = j

C14_ListsAreDuplicateFree ==
    \A d \in Dates : \A i \in 1..Len(files[d].papers) :
        /\ NoDuplicates(files[d].papers[i].topic)
        /\ NoDuplicates(files[d].papers[i].category)

(***************************************************************************)
(* C15.  A record is dropped only by the filter: an id of a date's         *)
(* persisted record set is absent after a step only if the step is the     *)
(* driver processing the record of that id, and the record, as it is after *)
(* the result is applied, is not whitelisted and has topics or categories  *)
(* exactly ["Other"].                                                      *)
(***************************************************************************)
C15_DroppedOnlyByFilter ==
    [][ \A d \in Dates :
            \A id \in IdsOf(files[d].papers) \ IdsOf(files'[d].papers) :
                /\ ProcessStep
                /\ d = drv.date_str
                /\ id = Candidate.paper_id
                /\ ~Whitelisted(CandidateAfter)
                /\ OnlyOther(CandidateAfter) ]_vars

\* the driver has dropped a record, and a record behind it in the file is
\* still persisted
C15_Witness ==
    /\ drv.done >= 1
    /\ \E p \in Processed :
        /\ p.paper_id \notin IdsOf(files[drv.date_str].papers)
        /\ \E i \in 1..Len(files[drv.date_str].papers) :
                files[drv.date_str].papers[i].paper_id > p.paper_id

(***************************************************************************)
(* C16.  At every point of a driver pass, between two candidates and at    *)
(* its end, the date's file holds the whole current record set: every      *)
(* record processed so far as it is after its result was applied, or not   *)
(* at all if the filter removed it, and every other record of the date.    *)
(***************************************************************************)
InPass == pc \in {"driver_pass", "driver_dates"} /\ drv.date_str # 0

ProcessedIndices == {drv.papers_to_process[k] : k \in 1..drv.done}

IsCandidate(paper) == needs_translation(paper) \/ needs_classification(paper)

HasCandidates(d) ==
    \E i \in 1..Len(load_papers_for_date(files, d)) :
        IsCandidate(load_papers_for_date(files, d)[i])

C17_EachCandidateOnce ==
    /\ [][ /\ ProcessStep =>
                /\ IsCandidate(Candidate)
                /\ drv.papers_to_process[drv.done + 1] \notin ProcessedIndices
                /\ used'.calls = used.calls + 1
                /\ drv'.papers_to_process = drv.papers_to_process
                /\ \A i \in 1..Len(drv.papers) :
                        i # drv.papers_to_process[drv.done + 1] =>
                            drv'.papers[i] = drv.papers[i]
           /\ (pc = "driver_pass" /\ ~ProcessStep) =>
                UNCHANGED <<used.calls, drv.papers, drv.papers_to_process>>
           /\ (pc = "driver_pass" /\ pc' # "driver_pass") =>
                /\ pc' = "driver_dates"
                /\ drv'.done = Len(drv.papers_to_process)
                /\ \A i \in 1..Len(drv'.papers) :
                        IsCandidate(drv'.papers[i]) =>
                            \E k \in 1..drv'.done : drv.papers_to_process[k] = i
           /\ (pc = "driver_dates" /\ pc' = "driver_pass") =>
                /\ In(drv'.date_str, drv.dates)
                /\ HasCandidates(drv'.date_str)
                /\ \A k \in 1..Len(drv.dates) :
                        drv.dates[k] < drv'.date_str => ~HasCandidates(drv.dates[k])
           /\ (pc = "driver_dates" /\ pc' = "idle") =>
                \A k \in 1..Len(drv.dates) : ~HasCandidates(drv.dates[k]) ]_vars
    /\ (pc = "driver_pass") ~> (pc = "driver_dates")

\* a pass of two calls is over, the record of a call that failed still
\* needs processing, and another date is to come
C17_Witness ==
    /\ pc = "driver_dates"
    /\ drv.done = 2
    /\ Len(drv.papers_to_process) = 2
    /\ drv.dates # <<>>
    /\ \E i \in ProcessedIndices :
            IsCandidate(drv.papers[i]) /\ In(drv.papers[i], files[drv.date_str].papers)
    /\ \E i \in ProcessedIndices : ~IsCandidate(drv.papers[i])

(***************************************************************************)
(* C18.  Within a pass the candidates are processed in the order of the    *)
(* record set read at its start, and each result is applied to the record  *)
(* with the id of the record sent to the adapter, also after removals have *)
(* shifted the positions in the working copy: the non-empty fields of the  *)
(* result are in that record, which is saved unless filtered, and every    *)
(* other record of the date is as it was, in memory and in the file.       *)
(***************************************************************************)
C18_ResultGoesToItsRecord ==
    [][ ProcessStep =>
            LET d == drv.date_str
                result == drv'.result
            IN  /\ \A k \in 1..drv.done :
                        drv.papers_to_process[k] < drv.papers_to_process[drv.done + 1]
                /\ CandidateAfter.paper_id = Candidate.paper_id
                /\ result.paper_title_zh # "" =>
                        CandidateAfter.paper_title_zh = result.paper_title_zh
                /\ result.paper_abstract_zh # "" =>
                        CandidateAfter.paper_abstract_zh = result.paper_abstract_zh
                /\ Range(result.topic) \subseteq Range(CandidateAfter.topic)
                /\ Range(result.category) \subseteq Range(CandidateAfter.category)
                /\ (Whitelisted(CandidateAfter) \/ ~OnlyOther(CandidateAfter)) =>
                        In(CandidateAfter, files'[d].papers)
                /\ \A i \in 1..Len(files[d].papers) :
                        files[d].papers[i].paper_id # Candidate.paper_id =>
                            In(files[d].papers[i], files'[d].papers)
                /\ \A i \in 1..Len(files'[d].papers) :
                        files'[d].papers[i].paper_id # Candidate.paper_id =>
                            In(files'[d].papers[i], files[d].papers) ]_vars

\* the first record of the date was removed, and the result of the next call
\* is in the second record, which is now the first of the file
C18_Witness ==
    /\ drv.done = 2
    /\ drv.papers_to_process = <<1, 2>>
    /\ drv.papers[1].paper_id \notin IdsOf(files[drv.date_str].papers)
    /\ drv.result.paper_title_zh # ""
    /\ drv.result.topic # <<>>
    /\ files[drv.date_str].papers # <<>>
    /\ files[drv.date_str].papers[1] = drv.papers[2]
    /\ drv.papers[2].paper_title_zh = drv.result.paper_title_zh
    /\ Range(drv.result.topic) \subseteq Range(drv.papers[2].topic)

(***************************************************************************)
(* C19.  Every topic and category the driver writes into a record is in    *)
(* the configured vocabulary.  A returned value outside it is discarded    *)
(* and does not make the call fail: the result of a response that parses   *)
(* holds exactly its in-vocabulary values and its translations, and the    *)
(* driver applies them.                                                    *)
(***************************************************************************)
C19_WrittenValuesAreInVocabulary ==
    [][ ProcessStep =>
            /\ Range(drv'.result.topic) \subseteq all_topic
            /\ Range(drv'.result.category) \subseteq all_category
            /\ CandidateAfter.topic # Candidate.topic =>
                    Range(CandidateAfter.topic) \subseteq all_topic
            /\ CandidateAfter.category # Candidate.category =>
                    Range(CandidateAfter.category) \subseteq all_category
            /\ Range(drv'.result.topic) \subseteq Range(CandidateAfter.topic)
            /\ Range(drv'.result.category) \subseteq Range(CandidateAfter.category)
            /\ drv'.result.paper_title_zh # "" =>
                    CandidateAfter.paper_title_zh = drv'.result.paper_title_zh
            /\ \A r \in JsonResponses :
                LET result == process_paper_complete(<<r>>)
                IN  /\ Range(result.topic) = Range(r.topic.items) \cap all_topic
                    /\ Range(result.category) = Range(r.category.items) \cap all_category
                    /\ result.paper_title_zh = r.paper_title_zh
                    /\ result.paper_abstract_zh = r.paper_abstract_zh ]_vars

\* of an answer with topics TTS and one outside the vocabulary, a category
\* outside it and translations, the topic TTS and the translations are in
\* the record, which keeps its category and is saved
C19_Witness ==
    /\ drv.done >= 1
    /\ drv.result.topic = <<"TTS">>
    /\ drv.result.category = <<>>
    /\ drv.result.paper_title_zh = "zh1"
    /\ LET p == drv.papers[drv.papers_to_process[drv.done]]
       IN  /\ p.topic = <<"TTS">>
           /\ p.category = <<"Speech">>
           /\ p.paper_title_zh = "zh1"
           /\ In(p, files[drv.date_str].papers)

(***************************************************************************)
(* C20.  A translated field is set at most once: when the driver applies a *)
(* result to a record whose translated title (abstract) is non-empty, the  *)
(* translated title (abstract) stays as it is.                             *)
(***************************************************************************)
C20_TranslationSetOnce ==
    [][ ProcessStep =>
            /\ Candidate.paper_title_zh # "" =>
                    CandidateAfter.paper_title_zh = Candidate.paper_title_zh
            /\ Candidate.paper_abstract_zh # "" =>
                    CandidateAfter.paper_abstract_zh = Candidate.paper_abstract_zh ]_vars

(***************************************************************************)
(* C21.  In no state during or after a cleanup run does the ledger list a  *)
(* date whose record-set file the run has deleted.                         *)
(***************************************************************************)
C21_LedgerNeverListsDeletedDate ==
    \A d \in cln.removed_files : ~files[d].exists => ~In(d, index.dates)

(***************************************************************************)
(* C22.  A malformed raw record does not fail the batch: when a collection *)
(* run has saved, every well-formed record that any query yielded, in the  *)
(* same query as a malformed one or in another, is in the date's persisted *)
(* record set, and no malformed one has been added.                        *)
(***************************************************************************)
WellFormedIds(raw) == {raw[i].paper_id : i \in {j \in 1..Len(raw) : raw[j].well_formed}}

MalformedIds(raw) == {raw[i].paper_id : i \in {j \in 1..Len(raw) : ~raw[j].well_formed}}

AllRaw(raw_found, raw_categories) ==
    raw_found["TTS"] \o raw_found["MIR"] \o raw_categories[1] \o raw_categories[2]

C22_WellFormedRecordsArePersisted ==
    [][ \A d \in Sources.dates, raw_found \in Sources.raw_found,
           raw_categories \in Sources.raw_categories :
            CollectFromSources(d, raw_found, raw_categories, "v1") =>
                LET raw == AllRaw(raw_found, raw_categories)
                IN  /\ WellFormedIds(raw) \subseteq IdsOf(files'[d].papers)
                    /\ IdsOf(files'[d].papers) \subseteq
                            IdsOf(load_papers_for_date(files, d)) \cup WellFormedIds(raw) ]_vars

(***************************************************************************)
(* C23.  After any sequence of collection, enrichment and cleanup runs     *)
(* from an empty ledger, the dates of the ledger are in ascending order    *)
(* and no date is listed twice.                                            *)
(***************************************************************************)
C23_LedgerDatesAscending ==
    \A i \in 1..Len(index.dates) : \A j \in 1..Len(index.dates) :
        i < j => index.dates[i] < index.dates[j]

\* the earlier date has just been collected for the first time, by the second
\* collection run, and the ledger lists it before the later date
C23_Witness ==
    /\ pc = "collected"
    /\ used.collect = 2
    /\ col.date_str = 1
    /\ col.existing_count = 0
    /\ index.dates = <<1, 2>>

(***************************************************************************)
(* C24.  Cleanup deletes a per-date file only when its text is blank or is *)
(* an empty list; the date of a file that holds a record, or text that     *)
(* does not parse, or any other value, stays in the ledger; and a run that *)
(* deletes no file leaves the ledger file as it was.                       *)
(***************************************************************************)
\* the text is white space only, or an empty list with white space around
\* and between its brackets
BlankOrEmptyList(file) ==
    SelectSeq(Text(file), LAMBDA c : c # " ") \in {<<>>, <<"[", "]">>}

C24_OnlyEmptyFilesAreDeleted ==
    [][ /\ \A d \in Dates :
            /\ (files[d].exists /\ ~files'[d].exists) => BlankOrEmptyList(files[d])
            /\ (files[d].exists /\ ~BlankOrEmptyList(files[d])) =>
                    /\ files'[d] = files[d]
                    /\ In(d, index.dates) => In(d, index'.dates)
        /\ (pc = "cleanup" /\ cln.removed_files = {}) => index' = index ]_vars

\* a run has ended that deleted the blank file of date 1 and took its date
\* from the ledger, and kept the file of date 2, cut short, and its date
C24_Witness ==
    /\ pc = "idle"
    /\ cln.removed_files = {1}
    /\ cln.index_obj.dates = <<1, 2>>
    /\ ~files[1].exists
    /\ files[2] = [exists |-> TRUE, papers |-> <<>>, raw |-> <<"[", "r">>]
    /\ index.dates = <<2>>

(***************************************************************************)
(* C25.  Progress toward enrichment: once the runs of the driver in which  *)
(* every adapter call returns a complete result are all that is left, a    *)
(* run ends in a state where every record of every date of the ledger has  *)
(* both translations, topics and categories.                               *)
(***************************************************************************)
Enriched(p) ==
    /\ p.paper_title_zh # "" /\ p.paper_abstract_zh # ""
    /\ p.topic # <<>> /\ p.category # <<>>

AllEnriched ==
    \A d \in Range(index.dates) :
        \A i \in 1..Len(files[d].papers) : Enriched(files[d].papers[i])

C25_EventuallyAllEnriched ==
    (pc = "idle" /\ used.runs = Progress.max_runs - 1)
        ~> (pc = "idle" /\ used.runs = Progress.max_runs /\ AllEnriched)

\* the last run has ended, two adapter calls have been made since the one
\* collection, and the only record of date 1 is enriched with an answer that
\* only the last run gives
C25_Witness ==
    /\ pc = "idle"
    /\ used.runs = Progress.max_runs
    /\ AllEnriched
    /\ In(1, index.dates)
    /\ Len(files[1].papers) = 1
    /\ files[1].papers[1].paper_title_zh = "zh2"
    /\ files[1].papers[1].topic = <<"TTS">>
    /\ col = NoCol
    /\ used.collect = 1
    /\ used.calls = 2

(***************************************************************************)
(* C26.  One call of an adapter makes at most max_retries requests, makes  *)
(* no request after the first one whose response parsed into a result,     *)
(* raises nothing and returns: the result of that response, or, when no    *)
(* request got one, a result whose fields are all empty.                   *)
(***************************************************************************)
\* the number of the first request whose response parses into a result, or 0
FirstParsed(responses) ==
    IF \E k \in 1..max_retries : responses[k].kind = "json"
    THEN CHOOSE k \in 1..max_retries :
            /\ responses[k].kind = "json"
            /\ \A j \in 1..(k - 1) : responses[j].kind # "json"
    ELSE 0

C26_CallOutcome ==
    LET k == FirstParsed(call.responses)
    IN  /\ call.attempt <= max_retries
        /\ call.state # "raised"
        /\ call.state = "running" =>
                \A j \in 1..call.attempt : call.responses[j].kind # "json"
        /\ (call.state = "returned" /\ call.fn # "none") =>
                IF k # 0
                THEN /\ call.attempt = k
                     /\ call.result = ParsedOf(call.fn, call.responses[k], call.n)
                ELSE /\ call.attempt = max_retries
                     /\ call.result = EmptyOf(call.fn, call.n)
        /\ (call.state = "returned" /\ call.fn = "complete") =>
                call.result = process_paper_complete(call.responses)
        /\ (call.state = "returned" /\ call.fn = "batch") =>
                call.result = translate_papers_batch(call.responses, call.n)

C26_CallReturnsBoundedResult ==
    /\ []C26_CallOutcome
    /\ <>(call.state = "returned")

\* a call of process_paper_complete has returned the result of its second
\* request, the first response having parsed into no object
C26_Witness ==
    /\ call.fn = "complete"
    /\ call.state = "returned"
    /\ call.attempt = 2
    /\ call.responses[1].kind = "not_object"
    /\ call.result.paper_title_zh = "zh1"

(***************************************************************************)
(* C27.  The commands of one run of daily_task are started in the fixed    *)
(* order collection, enrichment, cleanup, git add, git commit, git push;   *)
(* a command is started only when every earlier one of the run has ended   *)
(* with success, so that none is started after the first failed or timed-  *)
(* out one.                                                                *)
(***************************************************************************)
\* the entries of run r in the log, in order
EntriesOf(r) == SelectSeq(task.log, LAMBDA e : e.run = r)

C27_StepsInOrderUntilFailure ==
    \A r \in 1..MaxTasks :
        LET entries == EntriesOf(r)
        IN  /\ Len(entries) <= Len(steps)
            /\ \A i \in 1..Len(entries) :
                /\ entries[i].step = steps[i]
                /\ i < Len(entries) => entries[i].outcome = "ok"

\* the first run ended when its third command timed out, the second run has
\* run all its commands
C27_Witness ==
    /\ task.state = "idle"
    /\ task.runs = 2
    /\ Len(EntriesOf(1)) = 3
    /\ EntriesOf(1)[3].outcome = "timeout"
    /\ Len(EntriesOf(2)) = Len(steps)
    /\ EntriesOf(2)[Len(steps)].outcome = "ok"
    /\ task.success_count = Len(steps)

====
